---- MODULE Spec2Model ----
(***************************************************************************)
(* Response protocol layer of the HeroSMS client (HeroSMSClient and its    *)
(* error classes): one transport GET per call, classification of the raw   *)
(* body by checkForErrors, then the operation's own decoding.              *)
(*                                                                         *)
(* JavaScript strings are sequences of one-character strings, so that      *)
(* startsWith, split, parseFloat, parseInt and the two regular expressions *)
(* are computed on the characters as the engine computes them.             *)
(***************************************************************************)
EXTENDS Integers, Sequences, FiniteSets, TLC

VARIABLES apiKey, pc, op, args, sent, data, resp, outcome, calls

\* apiKey   the key the client was constructed with
\* pc       where the call in progress stands
\* op, args the public method invoked and its arguments
\* sent     the GETs issued for the call in progress (their query parameters)
\* data     response.data of the GET, once it has resolved
\* resp     the completion of request(): the value returned or the error thrown
\* outcome  the completion of the public method
\* calls    the same per-call state for several calls in flight on the one
\*          client at once (used by SpecConc; the variables pc .. outcome
\*          follow a client that is given one call at a time)
vars == <<apiKey, pc, op, args, sent, data, resp, outcome, calls>>

(***************************************************************************)
(* String literals of the source, as character sequences.                  *)
(***************************************************************************)
BAD_ACTION ==
    <<"B", "A", "D", "_", "A", "C", "T", "I", "O", "N">>
BAD_KEY ==
    <<"B", "A", "D", "_", "K", "E", "Y">>
NO_KEY ==
    <<"N", "O", "_", "K", "E", "Y">>
ERROR_SQL ==
    <<"E", "R", "R", "O", "R", "_", "S", "Q", "L">>
BAD_SERVICE ==
    <<"B", "A", "D", "_", "S", "E", "R", "V", "I", "C", "E">>
BAD_STATUS ==
    <<"B", "A", "D", "_", "S", "T", "A", "T", "U", "S">>
NO_NUMBERS ==
    <<"N", "O", "_", "N", "U", "M", "B", "E", "R", "S">>
NO_ACTIVATION ==
    <<"N", "O", "_", "A", "C", "T", "I", "V", "A", "T", "I", "O", "N">>
WRONG_ACTIVATION_ID ==
    <<"W", "R", "O", "N", "G", "_", "A", "C", "T", "I", "V", "A", "T", "I", "O", "N", "_", "I", "D">>
EARLY_CANCEL_DENIED ==
    <<"E", "A", "R", "L", "Y", "_", "C", "A", "N", "C", "E", "L", "_", "D", "E", "N", "I", "E", "D">>
CHANNELS_LIMIT ==
    <<"C", "H", "A", "N", "N", "E", "L", "S", "_", "L", "I", "M", "I", "T">>
OPERATORS_NOT_FOUND ==
    <<"O", "P", "E", "R", "A", "T", "O", "R", "S", "_", "N", "O", "T", "_", "F", "O", "U", "N", "D">>
ORDER_ALREADY_EXISTS ==
    <<"O", "R", "D", "E", "R", "_", "A", "L", "R", "E", "A", "D", "Y", "_", "E", "X", "I", "S", "T", "S">>
NO_ACTIVATIONS ==
    <<"N", "O", "_", "A", "C", "T", "I", "V", "A", "T", "I", "O", "N", "S">>
BANNED ==
    <<"B", "A", "N", "N", "E", "D">>
WRONG_MAX_PRICE ==
    <<"W", "R", "O", "N", "G", "_", "M", "A", "X", "_", "P", "R", "I", "C", "E">>
PARSE_ERROR ==
    <<"P", "A", "R", "S", "E", "_", "E", "R", "R", "O", "R">>
ACCESS_BALANCE ==
    <<"A", "C", "C", "E", "S", "S", "_", "B", "A", "L", "A", "N", "C", "E">>
ACCESS_NUMBER ==
    <<"A", "C", "C", "E", "S", "S", "_", "N", "U", "M", "B", "E", "R">>
STATUS_OK ==
    <<"S", "T", "A", "T", "U", "S", "_", "O", "K">>
STATUS_WAIT_RETRY ==
    <<"S", "T", "A", "T", "U", "S", "_", "W", "A", "I", "T", "_", "R", "E", "T", "R", "Y">>
STATUS_WAIT_CODE ==
    <<"S", "T", "A", "T", "U", "S", "_", "W", "A", "I", "T", "_", "C", "O", "D", "E">>
STATUS_WAIT_RESEND ==
    <<"S", "T", "A", "T", "U", "S", "_", "W", "A", "I", "T", "_", "R", "E", "S", "E", "N", "D">>
STATUS_CANCEL ==
    <<"S", "T", "A", "T", "U", "S", "_", "C", "A", "N", "C", "E", "L">>
ACCESS_READY ==
    <<"A", "C", "C", "E", "S", "S", "_", "R", "E", "A", "D", "Y">>

Colon == <<":">>

UNKNOWN ==
    <<"u", "n", "k", "n", "o", "w", "n">>

(***************************************************************************)
(* Bounds of the explored transport bodies.                                *)
(***************************************************************************)
MaxTail == 2

TailChars == {":", ".", "1", "S"}

(***************************************************************************)
(* JavaScript primitives used by the client.                               *)
(***************************************************************************)
\* the value `undefined` where a string is expected: a sequence that is no
\* string (its single element is not a character)
Undefined == <<"undefined">>

\* String.prototype.startsWith
StartsWith(s, p) == Len(p) <= Len(s) /\ SubSeq(s, 1, Len(p)) = p

\* position of the first occurrence of character c in s, 0 when absent
IndexOfChar(s, c) ==
    IF \E i \in 1..Len(s) : s[i] = c
    THEN CHOOSE i \in 1..Len(s) : s[i] = c /\ \A j \in 1..(i - 1) : s[j] # c
    ELSE 0

RECURSIVE Split(_, _)
\* String.prototype.split with a one-character separator
Split(s, c) ==
    LET i == IndexOfChar(s, c)
    IN  IF i = 0 THEN <<s>>
        ELSE <<SubSeq(s, 1, i - 1)>> \o Split(SubSeq(s, i + 1, Len(s)), c)

\* array indexing a[k] with a zero-based index: undefined past the end
At(a, k) == IF k + 1 <= Len(a) THEN a[k + 1] ELSE Undefined

\* x ?? d in place of x || d: only undefined takes the default
OrDefault_OnlyUndefined(x, d) == IF x = Undefined THEN d ELSE x

\* x || d on a string-or-undefined x: undefined and '' are falsy
OrDefault(x, d) == IF x = Undefined \/ x = <<>> THEN d ELSE x

Digits == <<"0", "1", "2", "3", "4", "5", "6", "7", "8", "9">>

IsDigit(c) == \E i \in 1..10 : Digits[i] = c

DigitValue(c) == (CHOOSE i \in 1..10 : Digits[i] = c) - 1

WhiteSpace == {" ", "\t", "\n", "\r"}

LineTerminators == {"\n", "\r"}

RECURSIVE TrimStart(_)
TrimStart(s) ==
    IF s # <<>> /\ s[1] \in WhiteSpace THEN TrimStart(Tail(s)) ELSE s

RECURSIVE DigitRun(_)
\* the longest prefix of s made of decimal digits
DigitRun(s) ==
    IF s # <<>> /\ IsDigit(s[1]) THEN <<s[1]>> \o DigitRun(Tail(s)) ELSE <<>>

RECURSIVE DigitsToNat(_)
DigitsToNat(d) ==
    IF d = <<>> THEN 0
    ELSE 10 * DigitsToNat(SubSeq(d, 1, Len(d) - 1)) + DigitValue(d[Len(d)])

\* a JavaScript number: NaN, or the decimal m / 10^s with no trailing zero
\* in the fraction (two numerals denote the same number iff the records are
\* equal; the numerals explored are short enough to be exact as decimals)
NaN == [nan |-> TRUE, m |-> 0, s |-> 0]

RECURSIVE Num(_, _)
Num(m, s) ==
    IF s > 0 /\ m % 10 = 0 THEN Num(m \div 10, s - 1)
    ELSE [nan |-> FALSE, m |-> m, s |-> s]

\* parseFloat: leading white space, an optional sign, then the longest
\* prefix that is a decimal literal (digits, optional point, digits); NaN
\* when there is no such prefix.  Exponents and Infinity are not modelled:
\* no explored body contains a letter e or I after a numeral position.
ParseFloat(str) ==
    LET t    == TrimStart(str)
        neg  == t # <<>> /\ t[1] = "-"
        u    == IF t # <<>> /\ t[1] \in {"+", "-"} THEN Tail(t) ELSE t
        ip   == DigitRun(u)
        r    == SubSeq(u, Len(ip) + 1, Len(u))
        fp   == IF r # <<>> /\ r[1] = "." THEN DigitRun(Tail(r)) ELSE <<>>
        mant == DigitsToNat(ip \o fp)
    IN  IF ip = <<>> /\ fp = <<>> THEN NaN
        ELSE Num(IF neg THEN 0 - mant ELSE mant, Len(fp))

\* parseInt(str, 10): leading white space, an optional sign, then the
\* longest prefix of decimal digits; NaN when there is none
ParseInt(str) ==
    LET t   == TrimStart(str)
        neg == t # <<>> /\ t[1] = "-"
        u   == IF t # <<>> /\ t[1] \in {"+", "-"} THEN Tail(t) ELSE t
        ip  == DigitRun(u)
    IN  IF ip = <<>> THEN NaN
        ELSE Num(IF neg THEN 0 - DigitsToNat(ip) ELSE DigitsToNat(ip), 0)

RECURSIVE DotRun(_)
\* what a greedy .+ or .* consumes: everything up to a line terminator
DotRun(s) ==
    IF s # <<>> /\ s[1] \notin LineTerminators
    THEN <<s[1]>> \o DotRun(Tail(s)) ELSE <<>>

\* the suffix of s that starts at position i
From(s, i) == SubSeq(s, i, Len(s))

NoMatch == [matched |-> FALSE, g1 |-> <<>>, g2 |-> <<>>]

\* response.match(/ACCESS_BALANCE:(.+)/): unanchored, the leftmost position
\* where the literal is followed by at least one character
MatchBalance(s) ==
    LET lit   == ACCESS_BALANCE \o Colon
        g(i)  == DotRun(From(s, i + Len(lit)))
        ok(i) == StartsWith(From(s, i), lit) /\ g(i) # <<>>
    IN  IF \E i \in 1..Len(s) : ok(i)
        THEN LET i == CHOOSE k \in 1..Len(s) :
                          ok(k) /\ \A j \in 1..(k - 1) : ~ok(j)
             IN  [matched |-> TRUE, g1 |-> g(i), g2 |-> <<>>]
        ELSE NoMatch

\* response.match(/ACCESS_NUMBER:(\d+):(.+)/): unanchored; the greedy \d+
\* is the whole digit run (a shorter run is followed by a digit, never by
\* the colon), then a colon, then at least one character
MatchNumber(s) ==
    LET lit   == ACCESS_NUMBER \o Colon
        d(i)  == DigitRun(From(s, i + Len(lit)))
        r(i)  == From(s, i + Len(lit) + Len(d(i)))
        g(i)  == DotRun(Tail(r(i)))
        ok(i) == /\ StartsWith(From(s, i), lit)
                 /\ d(i) # <<>>
                 /\ r(i) # <<>>
                 /\ r(i)[1] = ":"
                 /\ g(i) # <<>>
    IN  IF \E i \in 1..Len(s) : ok(i)
        THEN LET i == CHOOSE k \in 1..Len(s) :
                          ok(k) /\ \A j \in 1..(k - 1) : ~ok(j)
             IN  [matched |-> TRUE, g1 |-> d(i), g2 |-> g(i)]
        ELSE NoMatch

(***************************************************************************)
(* Completions of a function body: it returns a value or throws.           *)
(***************************************************************************)
Return(v) == [tag |-> "return", value |-> v]

Throw(e) == [tag |-> "throw", error |-> e]

Pending == [tag |-> "pending"]

(***************************************************************************)
(* The error classes.  A message is the tuple of its literal text and, for *)
(* a template, the interpolated value.                                     *)
(***************************************************************************)
\* the constructor storing the code where the raw response belongs
HeroSMSError_RawIsCode(code, message, rawResponse) ==
    [name |-> "HeroSMSError", code |-> code, message |-> message,
     rawResponse |-> code]

HeroSMSError(code, message, rawResponse) ==
    [name |-> "HeroSMSError", code |-> code, message |-> message,
     rawResponse |-> rawResponse]

NoNumbersError(rawResponse) ==
    [HeroSMSError(NO_NUMBERS,
        <<"No numbers available for the requested service and country">>,
        rawResponse) EXCEPT !.name = "NoNumbersError"]

AuthenticationError(code, rawResponse) ==
    [HeroSMSError(code,
        IF code = NO_KEY THEN <<"API key is missing">>
                         ELSE <<"API key is invalid">>,
        rawResponse) EXCEPT !.name = "AuthenticationError"]

ActivationNotFoundError(rawResponse) ==
    [HeroSMSError(NO_ACTIVATION, <<"Activation not found">>, rawResponse)
        EXCEPT !.name = "ActivationNotFoundError"]

EarlyCancelError(rawResponse) ==
    [HeroSMSError(EARLY_CANCEL_DENIED,
        <<"Cannot cancel activation within the first 2 minutes">>,
        rawResponse) EXCEPT !.name = "EarlyCancelError"]

WrongMaxPriceError(rawResponse, minimumPrice) ==
    [name |-> "WrongMaxPriceError", code |-> WRONG_MAX_PRICE,
     message |-> <<"Maximum price is too low. Minimum price: ", minimumPrice>>,
     rawResponse |-> rawResponse, minimumPrice |-> minimumPrice]

BannedError(rawResponse, bannedUntil) ==
    [name |-> "BannedError", code |-> BANNED,
     message |-> <<"Account is banned until ", bannedUntil>>,
     rawResponse |-> rawResponse, bannedUntil |-> bannedUntil]

\* the classes that extend HeroSMSError, and HeroSMSError itself
HeroSMSErrorNames ==
    {"HeroSMSError", "NoNumbersError", "AuthenticationError",
     "ActivationNotFoundError", "EarlyCancelError", "WrongMaxPriceError",
     "BannedError"}

ERROR_MESSAGES ==
    (BAD_ACTION :> "Incorrect action specified")
    @@ (BAD_KEY :> "Incorrect API key")
    @@ (NO_KEY :> "API key is missing")
    @@ (ERROR_SQL :> "Server database error")
    @@ (BAD_SERVICE :> "Incorrect service specified")
    @@ (BAD_STATUS :> "Incorrect status specified")
    @@ (NO_NUMBERS :> "No numbers available")
    @@ (NO_ACTIVATION :> "Activation not found")
    @@ (WRONG_ACTIVATION_ID :> "Invalid activation ID")
    @@ (WRONG_MAX_PRICE :> "Maximum price is too low")
    @@ (EARLY_CANCEL_DENIED :> "Cannot cancel within first 2 minutes")
    @@ (CHANNELS_LIMIT :> "Account channels limit reached")
    @@ (OPERATORS_NOT_FOUND :> "No operators found")
    @@ (ORDER_ALREADY_EXISTS :> "Order already exists")
    @@ (NO_ACTIVATIONS :> "No activations found")

(***************************************************************************)
(* HeroSMSClient.checkForErrors                                            *)
(***************************************************************************)
errorCodes ==
    <<BAD_ACTION, BAD_KEY, NO_KEY, ERROR_SQL, BAD_SERVICE,
      BAD_STATUS, NO_NUMBERS, NO_ACTIVATION, WRONG_ACTIVATION_ID,
      EARLY_CANCEL_DENIED, CHANNELS_LIMIT, OPERATORS_NOT_FOUND,
      ORDER_ALREADY_EXISTS, NO_ACTIVATIONS>>

\* the loop test with includes() in place of startsWith()
CodeMatches_Contains(response, code) ==
    \E i \in 1..Len(response) : StartsWith(From(response, i), code)

\* the test of the loop body for one code
CodeMatches(response, code) == response = code \/ StartsWith(response, code)

\* the switch on the matched code
ErrorForCode(code, response) ==
    IF code = NO_NUMBERS THEN NoNumbersError(response)
    ELSE IF code = BAD_KEY \/ code = NO_KEY
         THEN AuthenticationError(code, response)
    ELSE IF code = NO_ACTIVATION THEN ActivationNotFoundError(response)
    ELSE IF code = EARLY_CANCEL_DENIED THEN EarlyCancelError(response)
    ELSE HeroSMSError(code,
            IF code \in DOMAIN ERROR_MESSAGES
            THEN <<ERROR_MESSAGES[code]>> ELSE <<code>>,
            response)

\* the completion of checkForErrors(response): a throw, or a normal return
checkForErrors(response) ==
    IF StartsWith(response, BANNED \o Colon)
    THEN Throw(BannedError(response,
                 OrDefault(At(Split(response, ":"), 1), UNKNOWN)))
    ELSE IF StartsWith(response, WRONG_MAX_PRICE \o Colon)
    THEN Throw(WrongMaxPriceError(response,
                 ParseFloat(OrDefault(At(Split(response, ":"), 1), <<"0">>))))
    ELSE LET hits == {i \in 1..Len(errorCodes) :
                         CodeMatches(response, errorCodes[i])}
         IN  IF hits = {} THEN Return(Undefined)
             ELSE LET first == CHOOSE i \in hits : \A j \in hits : i <= j
                  IN  Throw(ErrorForCode(errorCodes[first], response))

(***************************************************************************)
(* Values of response.data: a string, or already-decoded structured data.  *)
(***************************************************************************)
StrData(s) == [type |-> "string", str |-> s, json |-> 0]

JsonData(k) == [type |-> "object", str |-> <<>>, json |-> k]

\* no response yet, or none at all
NoData == [type |-> "none", str |-> <<>>, json |-> 0]

\* calling a string method (match, startsWith) on data that is no string
TypeError == [name |-> "TypeError"]

\* the rejection of httpClient.get: network failure, non-2xx status, timeout
AxiosError == [name |-> "AxiosError"]

(***************************************************************************)
(* HeroSMSClient.request: the parameters of the GET, and its continuation  *)
(* once the GET has resolved with response.data = responseData.            *)
(***************************************************************************)
\* request() sending a fixed key instead of this.apiKey
request_FixedKey(action, params) ==
    params @@ [api_key |-> "test-api-key", action |-> action]

request(action, params) ==
    params @@ [api_key |-> apiKey, action |-> action]

\* request() refusing data that is no string as unparsable
requestReturn_RejectsObjects(responseData) ==
    IF responseData.type = "string"
    THEN LET c == checkForErrors(responseData.str)
         IN  IF c.tag = "throw" THEN c ELSE Return(responseData)
    ELSE Throw(HeroSMSError(PARSE_ERROR, <<"Unexpected response">>, <<>>))

\* request() returning the first colon-separated field of a string body
requestReturn_FirstField(responseData) ==
    IF responseData.type = "string"
    THEN LET c == checkForErrors(responseData.str)
         IN  IF c.tag = "throw" THEN c
             ELSE Return(StrData(At(Split(responseData.str, ":"), 0)))
    ELSE Return(responseData)

\* request() returning the data without calling checkForErrors
requestReturn_Unchecked(responseData) == Return(responseData)

requestReturn(responseData) ==
    IF responseData.type = "string"
    THEN LET c == checkForErrors(responseData.str)
         IN  IF c.tag = "throw" THEN c ELSE Return(responseData)
    ELSE Return(responseData)

(***************************************************************************)
(* The decoding that follows `await this.request(...)` in each operation.  *)
(***************************************************************************)
getBalanceReturn(response) ==
    IF response.type # "string" THEN Throw(TypeError)
    ELSE LET match == MatchBalance(response.str)
         IN  IF ~match.matched
             THEN Throw(HeroSMSError(PARSE_ERROR,
                        <<"Unexpected balance response: ", response.str>>,
                        response.str))
             ELSE Return(ParseFloat(match.g1))

getNumberReturn(response) ==
    IF response.type # "string" THEN Throw(TypeError)
    ELSE LET match == MatchNumber(response.str)
         IN  IF ~match.matched
             THEN Throw(HeroSMSError(PARSE_ERROR,
                        <<"Unexpected number response: ", response.str>>,
                        response.str))
             ELSE Return([activationId |-> ParseInt(match.g1),
                          phoneNumber |-> match.g2])

\* getStatus testing the three bare tokens with startsWith instead of ===
getStatusReturn_PrefixMatch(response) ==
    IF response.type # "string" THEN Throw(TypeError)
    ELSE IF StartsWith(response.str, STATUS_OK \o Colon)
    THEN Return([status |-> STATUS_OK,
                 code |-> At(Split(response.str, ":"), 1)])
    ELSE IF StartsWith(response.str, STATUS_WAIT_RETRY \o Colon)
    THEN Return([status |-> STATUS_WAIT_RETRY,
                 code |-> At(Split(response.str, ":"), 1)])
    ELSE IF StartsWith(response.str, STATUS_WAIT_CODE)
    THEN Return([status |-> STATUS_WAIT_CODE])
    ELSE IF StartsWith(response.str, STATUS_WAIT_RESEND)
    THEN Return([status |-> STATUS_WAIT_RESEND])
    ELSE IF StartsWith(response.str, STATUS_CANCEL)
    THEN Return([status |-> STATUS_CANCEL])
    ELSE Throw(HeroSMSError(PARSE_ERROR,
               <<"Unexpected status response: ", response.str>>,
               response.str))

getStatusReturn(response) ==
    IF response.type # "string" THEN Throw(TypeError)
    ELSE IF StartsWith(response.str, STATUS_OK \o Colon)
    THEN Return([status |-> STATUS_OK,
                 code |-> At(Split(response.str, ":"), 1)])
    ELSE IF StartsWith(response.str, STATUS_WAIT_RETRY \o Colon)
    THEN Return([status |-> STATUS_WAIT_RETRY,
                 code |-> At(Split(response.str, ":"), 1)])
    ELSE IF response.str = STATUS_WAIT_CODE
    THEN Return([status |-> STATUS_WAIT_CODE])
    ELSE IF response.str = STATUS_WAIT_RESEND
    THEN Return([status |-> STATUS_WAIT_RESEND])
    ELSE IF response.str = STATUS_CANCEL
    THEN Return([status |-> STATUS_CANCEL])
    ELSE Throw(HeroSMSError(PARSE_ERROR,
               <<"Unexpected status response: ", response.str>>,
               response.str))

\* `await this.request(...)` and the code after it: a request() that threw
\* rethrows in the caller, otherwise the caller completes with rest, the
\* completion of the code after the await applied to resp.value
Await(r, rest) == IF r.tag = "throw" THEN r ELSE rest

(***************************************************************************)
(* Inputs.                                                                 *)
(***************************************************************************)
ApiKeys == {"test-api-key", "other-key"}

Ids == {123}

SMS_SENT == 1
REQUEST_RESEND == 3
COMPLETE == 6
CANCEL == 8

ActivationStatusCode == {SMS_SENT, REQUEST_RESEND, COMPLETE, CANCEL}

\* GetNumberOptions: service and country, and any of the optional fields
NumberOptions ==
    {[service |-> "tg", country |-> 2],
     [service |-> "tg", country |-> 2, maxPrice |-> 15, operator |-> "beeline"],
     [service |-> "wa", country |-> 0, maxPrice |-> 0, ref |-> "r1", operator |-> ""]}

RECURSIVE Strings(_)
\* the strings over TailChars of length at most n
Strings(n) ==
    IF n = 0 THEN {<<>>}
    ELSE LET shorter == Strings(n - 1)
         IN  shorter \cup {Append(s, c) : s \in shorter, c \in TailChars}

Prefixes ==
    {errorCodes[i] : i \in 1..Len(errorCodes)}
    \cup {<<>>, BANNED, BANNED \o Colon, WRONG_MAX_PRICE,
          WRONG_MAX_PRICE \o Colon, WRONG_MAX_PRICE \o <<":", "1">>,
          ACCESS_BALANCE \o Colon, ACCESS_BALANCE \o <<":", "1">>,
          ACCESS_NUMBER \o Colon, ACCESS_NUMBER \o <<":", "1", ":">>,
          STATUS_OK, STATUS_OK \o Colon, STATUS_WAIT_RETRY \o Colon,
          STATUS_WAIT_CODE, STATUS_WAIT_RESEND, STATUS_CANCEL, ACCESS_READY}

\* the string bodies explored: a recognised token, possibly after one
\* character of leading text, followed by a short tail
StringBodies ==
    {h \o p \o t : h \in {<<>>, <<"S">>}, p \in Prefixes, t \in Strings(MaxTail)}

JsonBodies == {JsonData(1), JsonData(2)}

Bodies == {StrData(s) : s \in StringBodies} \cup JsonBodies

HistoryOptions == {<<>>, [start |-> 1, size |-> 10]}

ServicesListOptions == {<<>>, [country |-> 0, lang |-> "en"]}

OperatorsCountry == {<<>>, [country |-> 0]}

PricesOptions == {<<>>, [service |-> "tg", country |-> 0]}

TopCountriesOptions == {<<>>, [service |-> "tg", freePrice |-> TRUE]}

(***************************************************************************)
(* Building the query parameters of each operation.                        *)
(***************************************************************************)
\* options.f !== undefined
Defined(options, f) == f \in DOMAIN options

\* if (options.f), for a string field: defined and not ''
Truthy(options, f) == f \in DOMAIN options /\ options[f] # ""

\* params.f = options.f when cond holds, nothing otherwise
Field(cond, options, f) == IF cond THEN f :> options[f] ELSE <<>>

numberParams(options) ==
    Field(Truthy(options, "operator"), options, "operator")
    @@ Field(Truthy(options, "ref"), options, "ref")
    @@ Field(Defined(options, "maxPrice"), options, "maxPrice")
    @@ [service |-> options.service, country |-> options.country]

historyParams(options) ==
    Field(Defined(options, "start"), options, "start")
    @@ Field(Defined(options, "end"), options, "end")
    @@ Field(Defined(options, "offset"), options, "offset")
    @@ Field(Defined(options, "size"), options, "size")

servicesListParams(options) ==
    Field(Defined(options, "country"), options, "country")
    @@ Field(Truthy(options, "lang"), options, "lang")

operatorsParams(a) == Field(Defined(a, "country"), a, "country")

pricesParams(options) ==
    Field(Truthy(options, "service"), options, "service")
    @@ Field(Defined(options, "country"), options, "country")

topCountriesParams(options) ==
    Field(Truthy(options, "service"), options, "service")
    @@ Field(Defined(options, "freePrice"), options, "freePrice")

(***************************************************************************)
(* State machine of one client: a call runs from its invocation to the     *)
(* GET (pc = "awaitGet"), the transport resolves or rejects it, request()  *)
(* classifies (pc = "awaitRequest"), the operation decodes (pc = "done"),  *)
(* and the caller takes the outcome.                                       *)
(***************************************************************************)
\* the calls that may be in flight at once
CallIds == {1, 2}

\* the state of a call slot before a call and after its outcome was taken
IdleCall ==
    [pc |-> "idle", op |-> "none", args |-> <<>>, sent |-> <<>>,
     data |-> NoData, resp |-> Pending, outcome |-> Pending]

Init ==
    /\ apiKey \in ApiKeys
    /\ pc = "idle"
    /\ op = "none"
    /\ args = <<>>
    /\ sent = <<>>
    /\ data = NoData
    /\ resp = Pending
    /\ outcome = Pending
    /\ calls = [i \in CallIds |-> IdleCall]

\* a public method, entered while the client has no call in progress, runs
\* up to the GET that request() issues
Invoke(name, a, action, params) ==
    /\ op' = name
    /\ args' = a
    /\ sent' = Append(sent, request(action, params))
    /\ pc' = "awaitGet"
    /\ UNCHANGED <<calls, apiKey, data, resp, outcome>>

\* the method resumes after `await this.request(...)`
Resume(names, rest) ==
    /\ pc = "awaitRequest"
    /\ op \in names
    /\ outcome' = Await(resp, rest)
    /\ pc' = "done"
    /\ UNCHANGED <<calls, apiKey, op, args, sent, data, resp>>

getBalance ==
    /\ pc = "idle"
    /\ Invoke("getBalance", <<>>, "getBalance", <<>>)

getNumber ==
    /\ pc = "idle"
    /\ \E options \in NumberOptions :
           Invoke("getNumber", options, "getNumber", numberParams(options))

getNumberV2 ==
    /\ pc = "idle"
    /\ \E options \in NumberOptions :
           Invoke("getNumberV2", options, "getNumberV2", numberParams(options))

setStatusFor(name, a, id, status) ==
    Invoke(name, a, "setStatus", [id |-> id, status |-> status])

setStatus ==
    /\ pc = "idle"
    /\ \E id \in Ids, status \in ActivationStatusCode :
           setStatusFor("setStatus", [id |-> id, status |-> status], id, status)

markReady ==
    /\ pc = "idle"
    /\ \E id \in Ids : setStatusFor("markReady", [id |-> id], id, SMS_SENT)

requestResend ==
    /\ pc = "idle"
    /\ \E id \in Ids :
           setStatusFor("requestResend", [id |-> id], id, REQUEST_RESEND)

complete ==
    /\ pc = "idle"
    /\ \E id \in Ids : setStatusFor("complete", [id |-> id], id, COMPLETE)

\* cancel passing ActivationStatusCode.COMPLETE
cancel_AsComplete ==
    /\ pc = "idle"
    /\ \E id \in Ids : setStatusFor("cancel", [id |-> id], id, COMPLETE)

cancel ==
    /\ pc = "idle"
    /\ \E id \in Ids : setStatusFor("cancel", [id |-> id], id, CANCEL)

getStatus ==
    /\ pc = "idle"
    /\ \E id \in Ids : Invoke("getStatus", [id |-> id], "getStatus", [id |-> id])

getStatusV2 ==
    /\ pc = "idle"
    /\ \E id \in Ids :
           Invoke("getStatusV2", [id |-> id], "getStatusV2", [id |-> id])

getActiveActivations ==
    /\ pc = "idle"
    /\ Invoke("getActiveActivations", <<>>, "getActiveActivations", <<>>)

getHistory ==
    /\ pc = "idle"
    /\ \E options \in HistoryOptions :
           Invoke("getHistory", options, "getHistory", historyParams(options))

getCountries ==
    /\ pc = "idle"
    /\ Invoke("getCountries", <<>>, "getCountries", <<>>)

getServicesList ==
    /\ pc = "idle"
    /\ \E options \in ServicesListOptions :
           Invoke("getServicesList", options, "getServicesList",
                  servicesListParams(options))

getOperators ==
    /\ pc = "idle"
    /\ \E a \in OperatorsCountry :
           Invoke("getOperators", a, "getOperators", operatorsParams(a))

getPrices ==
    /\ pc = "idle"
    /\ \E options \in PricesOptions :
           Invoke("getPrices", options, "getPrices", pricesParams(options))

getTopCountriesByService ==
    /\ pc = "idle"
    /\ \E options \in TopCountriesOptions :
           Invoke("getTopCountriesByService", options,
                  "getTopCountriesByService", topCountriesParams(options))

getTopCountriesByServiceRank ==
    /\ pc = "idle"
    /\ \E options \in TopCountriesOptions :
           Invoke("getTopCountriesByServiceRank", options,
                  "getTopCountriesByServiceRank", topCountriesParams(options))

\* httpClient.get resolves with response.data = data; request() classifies
requestResolved ==
    \E d \in Bodies :
        /\ pc = "awaitGet"
        /\ data' = d
        /\ resp' = requestReturn(d)
        /\ pc' = "awaitRequest"
        /\ UNCHANGED <<calls, apiKey, op, args, sent, outcome>>

\* a rejected GET caught and reported as a protocol error
requestRejected_Wrapped ==
    /\ pc = "awaitGet"
    /\ resp' = Throw(HeroSMSError(PARSE_ERROR, <<"Request failed">>, <<>>))
    /\ pc' = "awaitRequest"
    /\ UNCHANGED <<calls, apiKey, op, args, sent, data, outcome>>

\* a rejected GET issued once more before the failure is reported
requestRejected_Retried ==
    /\ pc = "awaitGet"
    /\ IF Len(sent) < 2
       THEN /\ sent' = Append(sent, sent[1])
            /\ UNCHANGED <<pc, resp>>
       ELSE /\ resp' = Throw(AxiosError)
            /\ pc' = "awaitRequest"
            /\ UNCHANGED sent
    /\ UNCHANGED <<calls, apiKey, op, args, data, outcome>>

\* httpClient.get rejects; the rejection propagates out of request()
requestRejected ==
    /\ pc = "awaitGet"
    /\ resp' = Throw(AxiosError)
    /\ pc' = "awaitRequest"
    /\ UNCHANGED <<calls, apiKey, op, args, sent, data, outcome>>

getBalanceResumed == Resume({"getBalance"}, getBalanceReturn(resp.value))

getNumberResumed == Resume({"getNumber"}, getNumberReturn(resp.value))

getStatusResumed == Resume({"getStatus"}, getStatusReturn(resp.value))

\* setStatus returns what request() returned; the four helpers return
\* setStatus's promise
setStatusResumed ==
    Resume({"setStatus", "markReady", "requestResend", "complete", "cancel"},
           Return(resp.value))

PassThroughOps ==
    {"getNumberV2", "getStatusV2", "getActiveActivations", "getHistory",
     "getCountries", "getServicesList", "getOperators", "getPrices",
     "getTopCountriesByService", "getTopCountriesByServiceRank"}

\* the operations whose body is `return await this.request<T>(...)`
passThroughResumed == Resume(PassThroughOps, Return(resp.value))

\* the caller has the outcome; the client is ready for the next call
Settle ==
    /\ pc = "done"
    /\ pc' = "idle"
    /\ op' = "none"
    /\ args' = <<>>
    /\ sent' = <<>>
    /\ data' = NoData
    /\ resp' = Pending
    /\ outcome' = Pending
    /\ UNCHANGED <<calls, apiKey>>

Next ==
    \/ getBalance
    \/ getNumber
    \/ getNumberV2
    \/ setStatus
    \/ markReady
    \/ requestResend
    \/ complete
    \/ cancel
    \/ getStatus
    \/ getStatusV2
    \/ getActiveActivations
    \/ getHistory
    \/ getCountries
    \/ getServicesList
    \/ getOperators
    \/ getPrices
    \/ getTopCountriesByService
    \/ getTopCountriesByServiceRank
    \/ requestResolved
    \/ requestRejected
    \/ getBalanceResumed
    \/ getNumberResumed
    \/ getStatusResumed
    \/ setStatusResumed
    \/ passThroughResumed
    \/ Settle

Spec == Init /\ [][Next]_vars

(***************************************************************************)
(* Vocabulary of the properties: the protocol's grammar, stated on the     *)
(* characters of the body and independently of the client's functions.     *)
(***************************************************************************)
\* a call has completed on a string body
DoneOnString == pc = "done" /\ data.type = "string"

\* the fourteen plain codes
PlainCodes ==
    {BAD_ACTION, BAD_KEY, NO_KEY, ERROR_SQL, BAD_SERVICE, BAD_STATUS,
     NO_NUMBERS, NO_ACTIVATION, WRONG_ACTIVATION_ID, EARLY_CANCEL_DENIED,
     CHANNELS_LIMIT, OPERATORS_NOT_FOUND, ORDER_ALREADY_EXISTS,
     NO_ACTIVATIONS}

\* body is code c, or c followed by trailing text
IsCodeBody(body, c) ==
    Len(body) >= Len(c) /\ \A i \in 1..Len(c) : body[i] = c[i]

\* the text after the first colon of body, up to the next colon or the end;
\* <<>> when body has no colon
SecondField(body) ==
    LET i    == IndexOfChar(body, ":")
        rest == IF i = 0 THEN <<>> ELSE From(body, i + 1)
        j    == IndexOfChar(rest, ":")
    IN  IF j = 0 THEN rest ELSE SubSeq(rest, 1, j - 1)

\* a decimal numeral: digits, optionally a point and more digits, with a
\* digit on at least one side of the point
IsDecimal(t) ==
    /\ \E i \in 1..Len(t) : IsDigit(t[i])
    /\ \A i \in 1..Len(t) : IsDigit(t[i]) \/ t[i] = "."
    /\ Cardinality({i \in 1..Len(t) : t[i] = "."}) <= 1

\* the number a decimal numeral denotes
DecimalValue(t) ==
    LET ds == SelectSeq(t, IsDigit)
        p  == IndexOfChar(t, ".")
    IN  Num(DigitsToNat(ds), IF p = 0 THEN 0 ELSE Len(t) - p)

Zero == Num(0, 0)

\* the outcome is a thrown HeroSMSError (or subclass) of the given class
\* and code
ThrowsError(o, name, code) ==
    /\ o.tag = "throw"
    /\ o.error.name = name
    /\ o.error.code = code

\* the outcome is the parse error carrying body
ThrowsParseError(o, body) ==
    /\ ThrowsError(o, "HeroSMSError", PARSE_ERROR)
    /\ o.error.rawResponse = body

(***************************************************************************)
(* Classification of the error bodies.                                     *)
(***************************************************************************)
\* C1: whenever a call has completed on a string body that is
\* NO_ACTIVATIONS, alone or followed by trailing text, the call has failed
\* with the generic HeroSMSError of code NO_ACTIVATIONS, and not with the
\* ActivationNotFoundError of code NO_ACTIVATION.
C1_NoActivationsKeepsItsCode ==
    DoneOnString /\ IsCodeBody(data.str, NO_ACTIVATIONS)
        => /\ ThrowsError(outcome, "HeroSMSError", NO_ACTIVATIONS)
           /\ outcome.error.name # "ActivationNotFoundError"

\* the error class the protocol assigns to a plain code
KindOfCode(c) ==
    IF c = NO_NUMBERS THEN "NoNumbersError"
    ELSE IF c \in {BAD_KEY, NO_KEY} THEN "AuthenticationError"
    ELSE IF c = NO_ACTIVATION THEN "ActivationNotFoundError"
    ELSE IF c = EARLY_CANCEL_DENIED THEN "EarlyCancelError"
    ELSE "HeroSMSError"

\* the message the protocol fixes for a plain code, where it fixes one
MessageFixed(c, message) ==
    IF c = BAD_KEY THEN message = <<"API key is invalid">>
    ELSE IF c = NO_KEY THEN message = <<"API key is missing">>
    ELSE IF KindOfCode(c) = "HeroSMSError"
         THEN message = <<ERROR_MESSAGES[c]>>
    ELSE TRUE

\* C2: for each of the fourteen plain codes c, whenever a call has completed
\* on a string body that is c, alone or followed by trailing text, the call
\* has failed with c's own error class and code c, with the message fixed
\* for c (the two authentication messages, the ERROR_MESSAGES entry for the
\* nine generic codes).
C2_EachPlainCodeGetsItsOwnError ==
    \A c \in PlainCodes :
        DoneOnString /\ IsCodeBody(data.str, c)
            => /\ ThrowsError(outcome, KindOfCode(c), c)
               /\ MessageFixed(c, outcome.error.message)

\* C3: whenever a call has completed on a string body that starts with
\* WRONG_MAX_PRICE:, the call has failed with a WrongMaxPriceError whose
\* minimumPrice is the number written in the second colon-separated field
\* when that field is a decimal numeral, and 0 when the field is empty or
\* does not start like a number.
C3_MinimumPriceIsFieldOrZero ==
    DoneOnString /\ IsCodeBody(data.str, WRONG_MAX_PRICE \o Colon)
        => /\ ThrowsError(outcome, "WrongMaxPriceError", WRONG_MAX_PRICE)
           /\ LET f == SecondField(data.str)
              IN  /\ IsDecimal(f) => outcome.error.minimumPrice = DecimalValue(f)
                  /\ (f = <<>> \/ ~(IsDigit(f[1]) \/ f[1] = "."))
                         => outcome.error.minimumPrice = Zero


\* C4: whenever a call has completed on a string body that starts with
\* BANNED:, the call has failed with a BannedError of code BANNED whose
\* bannedUntil is the second colon-separated field of the body, and is the
\* string unknown when that field is empty.
C4_BannedUntilIsFieldOrUnknown ==
    DoneOnString /\ IsCodeBody(data.str, BANNED \o Colon)
        => /\ ThrowsError(outcome, "BannedError", BANNED)
           /\ outcome.error.bannedUntil =
                  IF SecondField(data.str) = <<>> THEN UNKNOWN
                  ELSE SecondField(data.str)

\* a call answered BANNED: with an empty field has failed with the payload
\* unknown
C4_Witness ==
    /\ DoneOnString
    /\ data.str = BANNED \o <<":", ":", "1">>
    /\ outcome.tag = "throw"
    /\ outcome.error.name = "BannedError"
    /\ outcome.error.bannedUntil = UNKNOWN

(***************************************************************************)
(* Decoding of the text operations.                                        *)
(***************************************************************************)
\* the text after the literal prefix p of body
After(body, p) == From(body, Len(p) + 1)

\* C5: whenever getBalance has completed on a string body that the
\* classifier let through, it has returned a number only if the body is
\* ACCESS_BALANCE: followed by a decimal numeral, and then that number; on
\* every other such body it has failed with the PARSE_ERROR carrying the
\* body.
C5_BalanceOnlyFromBalanceForm ==
    DoneOnString /\ op = "getBalance" /\ resp.tag = "return"
        => IF /\ IsCodeBody(data.str, ACCESS_BALANCE \o Colon)
              /\ IsDecimal(After(data.str, ACCESS_BALANCE \o Colon))
           THEN outcome =
                    Return(DecimalValue(After(data.str, ACCESS_BALANCE \o Colon)))
           ELSE ThrowsParseError(outcome, data.str)

\* body is ACCESS_NUMBER:<digits>:<rest> with at least one digit and a
\* non-empty rest
IsNumberForm(body) ==
    /\ IsCodeBody(body, ACCESS_NUMBER \o Colon)
    /\ LET t == After(body, ACCESS_NUMBER \o Colon)
           i == IndexOfChar(t, ":")
       IN  /\ i > 1
           /\ i < Len(t)
           /\ \A k \in 1..(i - 1) : IsDigit(t[k])

\* C6: whenever getNumber has completed on a string body that the
\* classifier let through, then if the body is ACCESS_NUMBER:<digits>:<rest>
\* it has returned the integer value of <digits> as activationId and <rest>,
\* everything after the second colon, as phoneNumber; on every other such
\* body it has failed with the PARSE_ERROR carrying the body.
C6_NumberOnlyFromNumberForm ==
    DoneOnString /\ op = "getNumber" /\ resp.tag = "return"
        => IF IsNumberForm(data.str)
           THEN LET t == After(data.str, ACCESS_NUMBER \o Colon)
                    i == IndexOfChar(t, ":")
                IN  outcome =
                        Return([activationId |->
                                    Num(DigitsToNat(SubSeq(t, 1, i - 1)), 0),
                                phoneNumber |-> From(t, i + 1)])
           ELSE ThrowsParseError(outcome, data.str)

\* C7: whenever getStatus has completed on a string body STATUS_OK:<code> or
\* STATUS_WAIT_RETRY:<code> that the classifier let through, it has returned
\* the status of that name with the code field equal to <code>, the whole
\* text after the prefix.
C7_StatusCodeIsWholeRest ==
    \A st \in {STATUS_OK, STATUS_WAIT_RETRY} :
        /\ DoneOnString
        /\ op = "getStatus"
        /\ resp.tag = "return"
        /\ IsCodeBody(data.str, st \o Colon)
        => outcome = Return([status |-> st,
                             code |-> After(data.str, st \o Colon)])


ExactStatuses == {STATUS_WAIT_CODE, STATUS_WAIT_RESEND, STATUS_CANCEL}

\* body has one of the five shapes of a status
IsStatusForm(body) ==
    \/ IsCodeBody(body, STATUS_OK \o Colon)
    \/ IsCodeBody(body, STATUS_WAIT_RETRY \o Colon)
    \/ body \in ExactStatuses

\* C8: whenever getStatus has completed on a string body that the
\* classifier let through: it has returned STATUS_WAIT_CODE,
\* STATUS_WAIT_RESEND or STATUS_CANCEL exactly when the body equals that
\* token, the returned value then has the status field and no other; and on
\* a body of none of the five shapes it has failed with the PARSE_ERROR
\* carrying the body.
C8_ExactStatusesAndParseError ==
    DoneOnString /\ op = "getStatus" /\ resp.tag = "return"
        => /\ \A st \in ExactStatuses :
                  (outcome.tag = "return" /\ outcome.value.status = st)
                      <=> data.str = st
           /\ (outcome.tag = "return" /\ outcome.value.status \in ExactStatuses)
                  => DOMAIN outcome.value = {"status"}
           /\ ~IsStatusForm(data.str) => ThrowsParseError(outcome, data.str)

\* getStatus answered STATUS_WAIT_CODE:1 has failed with the parse error
C8_Witness ==
    /\ DoneOnString
    /\ op = "getStatus"
    /\ data.str = STATUS_WAIT_CODE \o <<":", "1">>
    /\ ThrowsParseError(outcome, data.str)

(***************************************************************************)
(* Order of classification and decoding; what every error carries.         *)
(***************************************************************************)
TextOps == {"getBalance", "getNumber", "getStatus"}

\* body is one the protocol defines as an error
IsErrorBody(body) ==
    \/ IsCodeBody(body, BANNED \o Colon)
    \/ IsCodeBody(body, WRONG_MAX_PRICE \o Colon)
    \/ \E c \in PlainCodes : IsCodeBody(body, c)

\* C9: for getBalance, getNumber and getStatus on a string body: once
\* request() has completed on an error body it has thrown a typed error that
\* is no PARSE_ERROR, before any decoding, and the call's outcome is that
\* same error; a call that ended in a value or in a PARSE_ERROR was answered
\* a body the classifier let through unchanged.
C9_ClassifiedBeforeDecoded ==
    op \in TextOps /\ data.type = "string"
        => /\ pc \in {"awaitRequest", "done"} /\ IsErrorBody(data.str)
                  => /\ resp.tag = "throw"
                     /\ resp.error.name \in HeroSMSErrorNames
                     /\ resp.error.code # PARSE_ERROR
           /\ pc = "awaitRequest" => outcome = Pending
           /\ pc = "done" /\ IsErrorBody(data.str) => outcome = resp
           /\ pc = "done" /\ (\/ outcome.tag = "return"
                              \/ outcome.error.code = PARSE_ERROR)
                  => ~IsErrorBody(data.str) /\ resp = Return(data)

\* getBalance answered BAD_KEY has failed with the AuthenticationError that
\* request() threw
C9_Witness ==
    /\ pc = "done"
    /\ op = "getBalance"
    /\ data = StrData(BAD_KEY)
    /\ outcome = resp
    /\ ThrowsError(outcome, "AuthenticationError", BAD_KEY)

\* C10: whenever a call has failed with a HeroSMSError or one of its
\* subclasses, the body was a string and the error's rawResponse is that
\* whole body; a BannedError carries bannedUntil and a WrongMaxPriceError
\* carries minimumPrice, the payload its message shows.
C10_ErrorsCarryTheWholeBody ==
    /\ pc = "done"
    /\ outcome.tag = "throw"
    /\ outcome.error.name \in HeroSMSErrorNames
    => /\ data.type = "string"
       /\ outcome.error.rawResponse = data.str
       /\ outcome.error.name = "BannedError"
              => /\ "bannedUntil" \in DOMAIN outcome.error
                 /\ outcome.error.message[2] = outcome.error.bannedUntil
       /\ outcome.error.name = "WrongMaxPriceError"
              => /\ "minimumPrice" \in DOMAIN outcome.error
                 /\ outcome.error.message[2] = outcome.error.minimumPrice

\* a call answered a plain code followed by trailing text has failed with
\* an error that carries the code and the whole body
C10_Witness ==
    /\ pc = "done"
    /\ data = StrData(BAD_SERVICE \o <<":", "1">>)
    /\ ThrowsError(outcome, "HeroSMSError", BAD_SERVICE)
    /\ outcome.error.rawResponse = BAD_SERVICE \o <<":", "1">>


(***************************************************************************)
(* Structured bodies, unchanged string bodies, transport failures.         *)
(***************************************************************************)
SetStatusOps == {"setStatus", "markReady", "requestResend", "complete", "cancel"}

\* C11: whenever the GET of a call has resolved with data that is no
\* string, request() has returned that very data and thrown nothing; and
\* when the call is one of the ten structured operations it has completed
\* by returning exactly that data.
C11_StructuredDataPassesThrough ==
    data.type = "object"
        => /\ pc \in {"awaitRequest", "done"} => resp = Return(data)
           /\ pc = "done" /\ op \in PassThroughOps => outcome = Return(data)

\* getPrices answered structured data has returned it
C11_Witness ==
    /\ pc = "done"
    /\ op = "getPrices"
    /\ data = JsonData(2)
    /\ outcome = Return(JsonData(2))

\* C12: whenever request() has returned on a string body, the value it
\* returned is the body itself; setStatus and its helpers have then
\* returned that body, and getBalance, getNumber and getStatus have
\* completed with what their decoder makes of that body.
C12_StringBodyHandedOnUnchanged ==
    data.type = "string" /\ resp.tag = "return"
        => /\ resp.value = data
           /\ resp.value.str = data.str
           /\ pc = "done" /\ op \in SetStatusOps => outcome = Return(data)
           /\ pc = "done" /\ op = "getBalance"
                  => outcome = getBalanceReturn(data)
           /\ pc = "done" /\ op = "getNumber"
                  => outcome = getNumberReturn(data)
           /\ pc = "done" /\ op = "getStatus"
                  => outcome = getStatusReturn(data)

\* setStatus answered ACCESS_READY:1 has returned those characters
C12_Witness ==
    /\ pc = "done"
    /\ op = "setStatus"
    /\ data = StrData(ACCESS_READY \o <<":", "1">>)
    /\ outcome.tag = "return"
    /\ outcome.value.str = ACCESS_READY \o <<":", "1">>


\* C13: whenever the GET of a call has been rejected, request() has thrown
\* the transport's own failure and the call has completed with that same
\* failure: it is no HeroSMSError, so it carries neither a protocol code nor
\* PARSE_ERROR, and no body was classified or decoded.
C13_TransportFailureSurfacesAsIs ==
    pc \in {"awaitRequest", "done"} /\ data = NoData
        => /\ resp = Throw(AxiosError)
           /\ resp.error.name \notin HeroSMSErrorNames
           /\ DOMAIN resp.error = {"name"}
           /\ pc = "done" => outcome = resp

\* getStatus whose GET was rejected has failed with the transport's failure
C13_Witness ==
    /\ pc = "done"
    /\ op = "getStatus"
    /\ data = NoData
    /\ outcome = Throw(AxiosError)

\* C14: a call in progress or completed has issued exactly one
\* GET, an idle client none; and an outcome exists only once that GET has
\* been answered or rejected.
C14_ExactlyOneGet ==
    /\ pc = "idle" => sent = <<>>
    /\ pc \in {"awaitGet", "awaitRequest", "done"} => Len(sent) = 1
    /\ pc = "awaitGet" => resp = Pending
    /\ outcome # Pending => pc = "done" /\ resp # Pending

\* a call that ended in a classified error, having issued one GET
C14_Witness ==
    /\ pc = "done"
    /\ data = StrData(NO_NUMBERS)
    /\ outcome.tag = "throw"
    /\ Len(sent) = 1


(***************************************************************************)
(* The request a call sends.                                               *)
(***************************************************************************)
HelperOps == {"markReady", "requestResend", "complete", "cancel"}

\* the status code each helper stands for
HelperStatus(o) ==
    CASE o = "markReady" -> 1
      [] o = "requestResend" -> 3
      [] o = "complete" -> 6
      [] o = "cancel" -> 8

\* the GET of the call in progress carries the client's key, and beyond
\* api_key and action only parameters the caller supplied, with the
\* caller's values (for a helper, also its fixed status); getBalance and
\* setStatus send exactly the parameters listed
CarriesKeyAndSuppliedParams ==
    pc # "idle"
        => /\ sent[1].api_key = apiKey
           /\ \A f \in DOMAIN sent[1] \ {"api_key", "action"} :
                  IF op \in HelperOps /\ f = "status"
                  THEN sent[1][f] = HelperStatus(op)
                  ELSE f \in DOMAIN args /\ sent[1][f] = args[f]
           /\ op = "getBalance" => DOMAIN sent[1] = {"api_key", "action"}
           /\ op = "setStatus"
                  => /\ DOMAIN sent[1] = {"api_key", "action", "id", "status"}
                     /\ sent[1].id = args.id
                     /\ sent[1].status = args.status

\* C15 as stated: every GET carries the client's key, action equal to the
\* name of the invoked operation, and only the parameters the operation
\* supplies.
C15_ActionIsInvokedOperation ==
    /\ CarriesKeyAndSuppliedParams
    /\ pc # "idle" => sent[1].action = op

\* C15: every GET carries the client's key, action equal to the name of the
\* invoked operation, except that markReady, requestResend, complete and
\* cancel send action setStatus, and only the parameters the operation
\* supplies.
C15_ActionIsOperationOrSetStatus ==
    /\ CarriesKeyAndSuppliedParams
    /\ pc # "idle"
           => sent[1].action = IF op \in HelperOps THEN "setStatus" ELSE op

\* getNumber with optional fields has sent them under the second key
C15_Witness ==
    /\ pc = "awaitGet"
    /\ op = "getNumber"
    /\ apiKey = "other-key"
    /\ sent = <<[api_key |-> "other-key", action |-> "getNumber",
                 service |-> "tg", country |-> 2, maxPrice |-> 15,
                 operator |-> "beeline"]>>

\* the request of setStatus(id, status)
SetStatusRequest(id, status) ==
    [api_key |-> apiKey, action |-> "setStatus", id |-> id, status |-> status]

\* the outcome of setStatus on a given answer of the transport
SetStatusOutcome(d) ==
    IF d = NoData THEN Throw(AxiosError)
    ELSE IF d.type = "string" /\ IsErrorBody(d.str)
    THEN checkForErrors(d.str)
    ELSE Return(d)

\* C16: setStatus(id, s) sends one request and ends in one outcome, both
\* fixed by id, s and the transport's answer; markReady(id),
\* requestResend(id), complete(id) and cancel(id) send that request and end
\* in that outcome for s = 1, 3, 6 and 8.
C16_HelpersAreSetStatus ==
    op \in SetStatusOps
        => LET s == IF op = "setStatus" THEN args.status
                    ELSE HelperStatus(op)
           IN  /\ sent = <<SetStatusRequest(args.id, s)>>
               /\ pc = "done" => outcome = SetStatusOutcome(data)

\* cancel(123) has sent status 8 and returned the body
C16_Witness ==
    /\ pc = "done"
    /\ op = "cancel"
    /\ sent[1].status = 8
    /\ data = StrData(ACCESS_READY)
    /\ outcome = Return(data)


(***************************************************************************)
(* Structured data answered to a text operation; the classifier's domain.  *)
(***************************************************************************)
\* C18: whenever getBalance, getNumber or getStatus has completed on data
\* that is no string, it has failed with the HeroSMSError of code
\* PARSE_ERROR, and with no other kind of failure.
C18_StructuredDataIsParseError ==
    pc = "done" /\ op \in TextOps /\ data.type = "object"
        => /\ ThrowsError(outcome, "HeroSMSError", PARSE_ERROR)
           /\ outcome.error.name \in HeroSMSErrorNames

\* body is of one of the success grammars
IsSuccessForm(body) ==
    \/ /\ IsCodeBody(body, ACCESS_BALANCE \o Colon)
       /\ IsDecimal(After(body, ACCESS_BALANCE \o Colon))
    \/ IsNumberForm(body)
    \/ IsStatusForm(body)

\* C19: whenever request() has completed on a string body, it has thrown
\* exactly when the body starts with BANNED:, with WRONG_MAX_PRICE: or with
\* one of the fourteen plain codes; the bare tokens BANNED and
\* WRONG_MAX_PRICE are let through and setStatus returns them; and no body
\* of a success grammar is rejected.
C19_ErrorExactlyOnErrorPrefix ==
    pc \in {"awaitRequest", "done"} /\ data.type = "string"
        => /\ resp.tag = "throw" <=> IsErrorBody(data.str)
           /\ data.str \in {BANNED, WRONG_MAX_PRICE}
                  => /\ resp = Return(data)
                     /\ pc = "done" /\ op = "setStatus"
                            => outcome = Return(data)
           /\ IsSuccessForm(data.str) => resp = Return(data)

\* setStatus answered the bare token WRONG_MAX_PRICE has returned it
C19_Witness ==
    /\ pc = "done"
    /\ op = "setStatus"
    /\ data = StrData(WRONG_MAX_PRICE)
    /\ outcome = Return(StrData(WRONG_MAX_PRICE))


(***************************************************************************)
(* Several calls in flight on one client.  Every call has its own frame    *)
(* (the locals of request() and of the public method); the client object   *)
(* holds only the read-only apiKey and httpClient.  The awaits are the     *)
(* points where calls interleave, and the transport answers in any order.  *)
(***************************************************************************)
ConcBodies ==
    {StrData(ACCESS_BALANCE \o <<":", "1">>), StrData(STATUS_OK \o <<":", "1">>),
     StrData(STATUS_WAIT_CODE), StrData(ACCESS_READY), StrData(BAD_KEY),
     JsonData(1)}

\* the invocations tried concurrently: method, arguments, and the action
\* and parameters the method passes to request()
ConcCalls ==
    {[name |-> "getBalance", args |-> <<>>,
      action |-> "getBalance", params |-> <<>>],
     [name |-> "getNumber", args |-> [service |-> "tg", country |-> 2],
      action |-> "getNumber",
      params |-> numberParams([service |-> "tg", country |-> 2])],
     [name |-> "getStatus", args |-> [id |-> 123],
      action |-> "getStatus", params |-> [id |-> 123]],
     [name |-> "setStatus", args |-> [id |-> 123, status |-> CANCEL],
      action |-> "setStatus", params |-> [id |-> 123, status |-> CANCEL]],
     [name |-> "cancel", args |-> [id |-> 123],
      action |-> "setStatus", params |-> [id |-> 123, status |-> CANCEL]],
     [name |-> "getCountries", args |-> <<>>,
      action |-> "getCountries", params |-> <<>>]}

\* the code after `await this.request(...)` of the method called name
DecodeFor(name, value) ==
    IF name = "getBalance" THEN getBalanceReturn(value)
    ELSE IF name = "getNumber" THEN getNumberReturn(value)
    ELSE IF name = "getStatus" THEN getStatusReturn(value)
    ELSE Return(value)

\* every call reading the response of call 1, as if it were kept in a
\* field of the client
ResponseOf_Shared(i) ==
    IF calls[1].pc \in {"awaitRequest", "done"} THEN calls[1].resp
    ELSE calls[i].resp

\* the local `response` of call i: what its own request() completed with
ResponseOf(i) == calls[i].resp

InvokeAt(i) ==
    \E c \in ConcCalls :
        /\ calls[i].pc = "idle"
        /\ calls' = [calls EXCEPT ![i] =
                        [@ EXCEPT !.pc = "awaitGet", !.op = c.name,
                                  !.args = c.args,
                                  !.sent = Append(@, request(c.action, c.params))]]
        /\ UNCHANGED <<apiKey, pc, op, args, sent, data, resp, outcome>>

ResolvedAt(i) ==
    \E d \in ConcBodies :
        /\ calls[i].pc = "awaitGet"
        /\ calls' = [calls EXCEPT ![i] =
                        [@ EXCEPT !.pc = "awaitRequest", !.data = d,
                                  !.resp = requestReturn(d)]]
        /\ UNCHANGED <<apiKey, pc, op, args, sent, data, resp, outcome>>

RejectedAt(i) ==
    /\ calls[i].pc = "awaitGet"
    /\ calls' = [calls EXCEPT ![i] =
                    [@ EXCEPT !.pc = "awaitRequest",
                              !.resp = Throw(AxiosError)]]
    /\ UNCHANGED <<apiKey, pc, op, args, sent, data, resp, outcome>>

ResumedAt(i) ==
    /\ calls[i].pc = "awaitRequest"
    /\ calls' = [calls EXCEPT ![i] =
                    [@ EXCEPT !.pc = "done",
                              !.outcome =
                                  Await(ResponseOf(i),
                                        DecodeFor(calls[i].op,
                                                  ResponseOf(i).value))]]
    /\ UNCHANGED <<apiKey, pc, op, args, sent, data, resp, outcome>>

SettleAt(i) ==
    /\ calls[i].pc = "done"
    /\ calls' = [calls EXCEPT ![i] = IdleCall]
    /\ UNCHANGED <<apiKey, pc, op, args, sent, data, resp, outcome>>

NextConc ==
    \/ \E i \in CallIds : InvokeAt(i)
    \/ \E i \in CallIds : ResolvedAt(i)
    \/ \E i \in CallIds : RejectedAt(i)
    \/ \E i \in CallIds : ResumedAt(i)
    \/ \E i \in CallIds : SettleAt(i)

SpecConc == Init /\ [][NextConc]_vars

\* the outcome of operation o on the transport's answer d, by itself
OwnOutcome(o, d) ==
    IF d = NoData THEN Throw(AxiosError)
    ELSE Await(requestReturn(d), DecodeFor(o, d))

\* C17: with several calls in flight, in every interleaving and every order
\* of the transport's answers, a completed call's outcome is the one its own
\* operation gives on its own transport answer, whatever the other calls
\* are doing; two completed calls of the same operation on the same answer
\* have the same outcome.
C17_CallsDoNotInterfere ==
    /\ \A i \in CallIds :
           calls[i].pc = "done"
               => calls[i].outcome = OwnOutcome(calls[i].op, calls[i].data)
    /\ \A i, j \in CallIds :
           /\ calls[i].pc = "done"
           /\ calls[j].pc = "done"
           /\ calls[i].op = calls[j].op
           /\ calls[i].data = calls[j].data
           => calls[i].outcome = calls[j].outcome

\* call 2 has completed with its own status while call 1, answered a bad
\* key, has not resumed yet
C17_Witness ==
    /\ calls[1].pc = "awaitRequest"
    /\ calls[1].op = "getBalance"
    /\ calls[1].data = StrData(BAD_KEY)
    /\ calls[2].pc = "done"
    /\ calls[2].op = "getStatus"
    /\ calls[2].outcome = Return([status |-> STATUS_WAIT_CODE])

====
